---- MODULE Spec2Model ----
(***************************************************************************)
(* A model of three problem classes of pyoculus:                           *)
(*   PerturbedSlab    (src/pyoculus/problems/PerturbedSlab.py)             *)
(*   CartesianBfield  (src/pyoculus/problems/cartesian_bfield.py)          *)
(*   SPECProblem      (src/pyoculus/problems/spec_problem.py)              *)
(*                                                                         *)
(* Numbers.  The right-hand sides are rational expressions in their        *)
(* inputs and in sin/cos of an angle, so they are computed here in exact   *)
(* rational arithmetic: a number is a pair <<n, d>> in lowest terms with   *)
(* d > 0, and <<0, 0>> stands for a non-finite float (inf or nan), which   *)
(* is what numpy's division by zero produces and which every later         *)
(* operation of these functions propagates.  Angles (q, t, phi) are drawn  *)
(* from the integer multiples of Theta = arctan(4/3), where sin and cos    *)
(* are rational: the angle a*Theta is written a, and Sin(a), Cos(a) are    *)
(* sin(a*Theta), cos(a*Theta).                                             *)
(* convert_coords is decided by the rounding of np.mod, so it is modelled  *)
(* on a small binary floating-point format instead (see MantBits).         *)
(***************************************************************************)
EXTENDS Integers, Sequences, FiniteSets, TLC

VARIABLES
    k,              \* PerturbedSlab: self.k
    kArg,           \* history: the latest __init__/set_k call and its argument k
    traj,           \* a consumer's trajectory of the slab's extended state
    field,          \* CartesianBfield: the concrete model's B / dBdX, if supplied
    specvariables,  \* SPECProblem: fortran_module.specvariables (module-global)
    instances,      \* SPECProblem: the instances constructed so far
    call            \* the latest call: its operation, arguments and outcome

vars == <<k, kArg, traj, field, specvariables, instances, call>>

----------------------------------------------------------------------------
(* Exact rational arithmetic (float64 arithmetic without rounding).        *)

Abs(n) == IF n < 0 THEN -n ELSE n

RECURSIVE GCD(_, _)
GCD(a, b) == IF b = 0 THEN a ELSE GCD(b, a % b)

NonFinite == <<0, 0>>

IsFinite(x) == x[2] # 0

RNorm(n, d) ==
    IF d = 0 THEN NonFinite
    ELSE LET g == GCD(Abs(n), Abs(d))
             s == IF d < 0 THEN -1 ELSE 1
         IN  <<s * (Abs(n) \div g) * (IF n < 0 THEN -1 ELSE 1), Abs(d) \div g>>

Num(n) == <<n, 1>>

RAdd(x, y) ==
    IF IsFinite(x) /\ IsFinite(y)
    THEN LET g == GCD(x[2], y[2])
         IN  RNorm(x[1] * (y[2] \div g) + y[1] * (x[2] \div g), (x[2] \div g) * y[2])
    ELSE NonFinite

RNeg(x) == IF IsFinite(x) THEN <<-x[1], x[2]>> ELSE NonFinite

RSub(x, y) == RAdd(x, RNeg(y))

RMul(x, y) ==
    IF IsFinite(x) /\ IsFinite(y)
    THEN LET g1 == GCD(Abs(x[1]), y[2])
             g2 == GCD(Abs(y[1]), x[2])
             sx == IF x[1] < 0 THEN -1 ELSE 1
             sy == IF y[1] < 0 THEN -1 ELSE 1
         IN  RNorm(sx * sy * (Abs(x[1]) \div g1) * (Abs(y[1]) \div g2),
                   (x[2] \div g2) * (y[2] \div g1))
    ELSE NonFinite

\* numpy float division: a zero divisor gives inf or nan, never an exception
RDiv(x, y) ==
    IF IsFinite(x) /\ IsFinite(y) /\ y[1] # 0
    THEN RNorm(x[1] * y[2], x[2] * y[1]) ELSE NonFinite

\* (3 + 4i)^n, so that cos(n*Theta) + i sin(n*Theta) = CPow(n) / 5^n
RECURSIVE CPow(_)
CPow(n) ==
    IF n = 0 THEN <<1, 0>>
    ELSE LET c == CPow(n - 1) IN <<3 * c[1] - 4 * c[2], 4 * c[1] + 3 * c[2]>>

RECURSIVE Pow(_, _)
Pow(b, n) == IF n = 0 THEN 1 ELSE b * Pow(b, n - 1)

\* np.cos / np.sin at the angle x*Theta, x an integer-valued number
Cos(x) == RNorm(CPow(Abs(x[1]))[1], Pow(5, Abs(x[1])))

Sin(x) == RNorm((IF x[1] < 0 THEN -1 ELSE 1) * CPow(Abs(x[1]))[2], Pow(5, Abs(x[1])))

IsAngle(x) == x[2] = 1

\* np.matmul of two 2x2 matrices (sequences of rows)
MatMul2(A, X) ==
    [i \in 1..2 |-> [j \in 1..2 |->
        RAdd(RMul(A[i][1], X[1][j]), RMul(A[i][2], X[2][j]))]]

----------------------------------------------------------------------------
(* PerturbedSlab                                                           *)

problem_size == 2

\* the default of __init__'s k, 0.002
DefaultK == <<1, 500>>

\* __init__(self, k): self.k = k
SlabInit(kv) == kv

set_k_skip(self_k, kv) == self_k

\* set_k(self, k): self.k = k
set_k(self_k, kv) == kv

\* dpdt = - self.k * (np.sin(2*q - t) + np.sin(3*q - 2*t))
dpdt(self_k, t, q) ==
    RMul(RNeg(self_k),
         RAdd(Sin(RSub(RMul(Num(2), q), t)),
              Sin(RSub(RMul(Num(3), q), RMul(Num(2), t)))))

\* f(self, t, qp): q = qp[1], p = qp[0]; returns [dpdt, dqdt]
f(self_k, t, qp) ==
    LET q == qp[2]
        p == qp[1]
        dqdt == p
    IN  <<dpdt(self_k, t, q), dqdt>>

\* the matrix M of f_tangent (the local linearization of f)
SlabM(self_k, t, q) ==
    << <<Num(0),
         RMul(RNeg(self_k),
              RAdd(RMul(Num(2), Cos(RSub(RMul(Num(2), q), t))),
                   RMul(Num(3), Cos(RSub(RMul(Num(3), q), RMul(Num(2), t))))))>>,
       <<Num(1), Num(0)>> >>

f_tangent_rowmajor(self_k, t, qp) ==
    LET dpq == << <<qp[3], qp[4]>>, <<qp[5], qp[6]>> >>
        dqp == MatMul2(SlabM(self_k, t, qp[2]), dpq)
    IN  <<dpdt(self_k, t, qp[2]), qp[1], dqp[1][1], dqp[1][2], dqp[2][1], dqp[2][2]>>

f_tangent_noshear(self_k, t, qp) ==
    LET dpq == << <<qp[3], qp[5]>>, <<qp[4], qp[6]>> >>
        M   == << SlabM(self_k, t, qp[2])[1], <<Num(0), Num(0)>> >>
        dqp == MatMul2(M, dpq)
    IN  <<dpdt(self_k, t, qp[2]), qp[1], dqp[1][1], dqp[2][1], dqp[1][2], dqp[2][2]>>

\* f_tangent(self, t, qp): returns [dpdt, dqdt, dqp00, dqp10, dqp01, dqp11]
f_tangent(self_k, t, qp) ==
    LET q == qp[2]
        p == qp[1]
        dpq == << <<qp[3], qp[5]>>, <<qp[4], qp[6]>> >>
        dqdt == p
        M == SlabM(self_k, t, q)
        dqp == MatMul2(M, dpq)
    IN  <<dpdt(self_k, t, q), dqdt, dqp[1][1], dqp[2][1], dqp[1][2], dqp[2][2]>>

----------------------------------------------------------------------------
(* PerturbedSlab.convert_coords, on a binary floating-point format.        *)
(* A float is an integer number of units (the subnormal spacing) with at   *)
(* most MantBits significant bits; a sum is rounded to the nearest float,  *)
(* ties to the even mantissa, as IEEE 754 does for float64.                *)

MantBits == 3

RECURSIVE BitLen(_)
BitLen(n) == IF n = 0 THEN 0 ELSE 1 + BitLen(n \div 2)

\* the spacing of the floats around the magnitude a >= 0
Ulp(a) == IF BitLen(a) <= MantBits THEN 1 ELSE Pow(2, BitLen(a) - MantBits)

IsFloat(v) == Abs(v) % Ulp(Abs(v)) = 0

\* round-to-nearest, ties-to-even
RoundF(v) ==
    LET a  == Abs(v)
        u  == Ulp(a)
        r  == a % u
        lo == a - r
        hi == lo + u
        m  == IF 2 * r < u THEN lo
              ELSE IF 2 * r > u THEN hi
              ELSE IF (lo \div u) % 2 = 0 THEN lo ELSE hi
    IN  IF v < 0 THEN -m ELSE m

\* the float 2.0*np.pi: a float above 2^MantBits, where the spacing exceeds 1
TwoPi == 3 * Pow(2, MantBits)

\* C fmod: exact, with the sign of the dividend
FMod(a, b) == (IF a < 0 THEN -1 ELSE 1) * (Abs(a) % b)

\* np.mod(a, b) for b > 0: fmod, then the divisor is added to a negative
\* remainder (a rounded float addition); a zero remainder is +0
NpMod(a, b) ==
    LET m == FMod(a, b)
    IN  IF m # 0 /\ m < 0 THEN RoundF(m + b) ELSE m

convert_coords_q_only(incoords) ==
    <<incoords[1], NpMod(incoords[2], TwoPi), incoords[3]>>

\* convert_coords(self, incoords)
convert_coords(incoords) ==
    <<incoords[1], NpMod(incoords[2], TwoPi), NpMod(incoords[3], TwoPi)>>

----------------------------------------------------------------------------
(* CartesianBfield                                                         *)

MatMul3(A, X) ==
    [i \in 1..3 |-> [j \in 1..3 |->
        RAdd(RAdd(RMul(A[i][1], X[1][j]), RMul(A[i][2], X[2][j])),
             RMul(A[i][3], X[3][j]))]]

MatVec3(A, v) ==
    [i \in 1..3 |->
        RAdd(RAdd(RMul(A[i][1], v[1]), RMul(A[i][2], v[2])), RMul(A[i][3], v[3]))]

MatAdd3(A, X) == [i \in 1..3 |-> [j \in 1..3 |-> RAdd(A[i][j], X[i][j])]]

Det2(a, b, c, d) == RSub(RMul(a, d), RMul(b, c))

\* np.linalg.inv of a 3x3 matrix (adjugate over determinant)
Inv3(A) ==
    LET Cof(i, j) ==
            LET r == IF i = 1 THEN <<2, 3>> ELSE IF i = 2 THEN <<1, 3>> ELSE <<1, 2>>
                c == IF j = 1 THEN <<2, 3>> ELSE IF j = 2 THEN <<1, 3>> ELSE <<1, 2>>
                d == Det2(A[r[1]][c[1]], A[r[1]][c[2]], A[r[2]][c[1]], A[r[2]][c[2]])
            IN  IF (i + j) % 2 = 0 THEN d ELSE RNeg(d)
        det == RAdd(RAdd(RMul(A[1][1], Cof(1, 1)), RMul(A[1][2], Cof(1, 2))),
                    RMul(A[1][3], Cof(1, 3)))
    IN  [i \in 1..3 |-> [j \in 1..3 |-> RDiv(Cof(j, i), det)]]

NotImplemented == "NotImplementedError"

Returned(v) == [raised |-> "", out |-> v]

Raised(e) == [raised |-> e, out |-> <<>>]

B_no_raise(fld, xyz) ==
    Returned([i \in 1..3 |-> RAdd(fld.B0[i], MatVec3(fld.G, xyz)[i])])

\* B(self, xyz): the base class raises; a concrete model returns its field,
\* here B0 + G.xyz
B(fld, xyz) ==
    IF ~fld.hasB THEN Raised(NotImplemented)
    ELSE Returned([i \in 1..3 |-> RAdd(fld.B0[i], MatVec3(fld.G, xyz)[i])])

\* dBdX(self, xyz): the base class raises; a concrete model returns dB_i/dx_j
dBdX(fld, xyz) ==
    IF ~fld.hasdBdX THEN Raised(NotImplemented) ELSE Returned(fld.G)

\* _inv_Jacobian(R, phi, Z)
inv_Jacobian(R, phi, Z) ==
    << <<Cos(phi), Sin(phi), Num(0)>>,
       <<RDiv(RNeg(Sin(phi)), R), RDiv(Cos(phi), R), Num(0)>>,
       <<Num(0), Num(0), Num(1)>> >>

\* xyz = [R cos(phi), R sin(phi), Z]
ToXYZ(R, phi, Z) == <<RMul(R, Cos(phi)), RMul(R, Sin(phi)), Z>>

\* f_RZ(self, phi, RZ)
f_RZ(fld, phi, RZ) ==
    LET R == RZ[1]
        Z == RZ[2]
        Bv == B(fld, ToXYZ(R, phi, Z))
    IN  IF Bv.raised # "" THEN Bv
        ELSE LET dRphiZ == MatVec3(inv_Jacobian(R, phi, Z), Bv.out)
             IN  Returned(<<RDiv(dRphiZ[1], dRphiZ[2]), RDiv(dRphiZ[3], dRphiZ[2])>>)

dinvJ_phi_row_last(Bx, By, phi, R) ==
    << <<Num(0), RAdd(RMul(RNeg(Bx), Sin(phi)), RMul(By, Cos(phi))), Num(0)>>,
       <<Num(0), Num(0), Num(0)>>,
       <<RAdd(RDiv(RMul(RNeg(Bx), Sin(phi)), RMul(R, R)),
              RDiv(RMul(By, Cos(phi)), RMul(R, R))),
         RSub(RDiv(RMul(RNeg(Bx), Cos(phi)), R), RDiv(RMul(By, Sin(phi)), R)),
         Num(0)>> >>

\* dinvJ of f_RZ_tangent, rows 0, 1, 2 of the source being rows 1, 2, 3 here
dinvJ(Bx, By, phi, R) ==
    << <<Num(0), RAdd(RMul(RNeg(Bx), Sin(phi)), RMul(By, Cos(phi))), Num(0)>>,
       <<RSub(RDiv(RMul(Bx, Sin(phi)), RMul(R, R)),
              RDiv(RMul(By, Cos(phi)), RMul(R, R))),
         RSub(RDiv(RMul(RNeg(Bx), Cos(phi)), R), RDiv(RMul(By, Sin(phi)), R)),
         Num(0)>>,
       <<Num(0), Num(0), Num(0)>> >>

\* the matrix M of f_RZ_tangent: the quotient rule on rows R (1) and Z (3)
\* against the phi row (2), columns R (1) and Z (3)
CartM(dBdRphiZ, dRphiZ) ==
    LET Q(i, j) ==
            RSub(RDiv(dBdRphiZ[i][j], dRphiZ[2]),
                 RMul(RDiv(dRphiZ[i], RMul(dRphiZ[2], dRphiZ[2])), dBdRphiZ[2][j]))
    IN  << <<Q(1, 1), Q(1, 3)>>, <<Q(3, 1), Q(3, 3)>> >>

\* the local values of f_RZ_tangent once B and dBdX have returned
CartLocals(Bout, dBdXout, phi, R, Z) ==
    LET invJacobian == inv_Jacobian(R, phi, Z)
        Jacobian == Inv3(invJacobian)
        dRphiZ == MatVec3(invJacobian, Bout)
        dBdRphiZ == MatAdd3(MatMul3(MatMul3(invJacobian, dBdXout), Jacobian),
                            dinvJ(Bout[1], Bout[2], phi, R))
    IN  [dRphiZ |-> dRphiZ, M |-> CartM(dBdRphiZ, dRphiZ)]

\* f_RZ_tangent(self, phi, RZ): returns
\* [dRdt, dZdt, dRZ[0,0], dRZ[1,0], dRZ[0,1], dRZ[1,1]]
f_RZ_tangent(fld, phi, RZ) ==
    LET R == RZ[1]
        Z == RZ[2]
        dRZ0 == << <<RZ[3], RZ[5]>>, <<RZ[4], RZ[6]>> >>
        xyz == ToXYZ(R, phi, Z)
        Bv == B(fld, xyz)
    IN  IF Bv.raised # "" THEN Bv
        ELSE LET Gv == dBdX(fld, xyz)
             IN  IF Gv.raised # "" THEN Gv
                 ELSE LET loc == CartLocals(Bv.out, Gv.out, phi, R, Z)
                          dRdt == RDiv(loc.dRphiZ[1], loc.dRphiZ[2])
                          dZdt == RDiv(loc.dRphiZ[3], loc.dRphiZ[2])
                          dRZ == MatMul2(loc.M, dRZ0)
                      IN  Returned(<<dRdt, dZdt,
                                     dRZ[1][1], dRZ[2][1], dRZ[1][2], dRZ[2][2]>>)

----------------------------------------------------------------------------
(* SPECProblem                                                             *)

\* spec_data.version is compared in tenths: 2.2 is 22
MinVersion == 22

\* an attribute that has not been assigned; an assigned one holds Val(v)
Unset == <<>>

Val(v) == <<v>>

VersionError == "SPEC version >=2.2 is needed"

BoundError == "Volume number lvol out of bound"

\* a py_spec.SPECout dataset; its arrays are named, not spelled out
Dataset(name, version, Mvol, Igeometry, Istellsym, hasRpol) ==
    [name |-> name, version |-> version, Mvol |-> Mvol, Ntor |-> Mvol + 1,
     Mpol |-> Mvol + 2, Igeometry |-> Igeometry, mn |-> 2 * Mvol + 3,
     Istellsym |-> Istellsym, Nfp |-> Mvol + 4,
     im |-> <<name, "im">>, in1 |-> <<name, "in">>,
     Rbc |-> <<name, "Rbc">>, Zbc |-> <<name, "Zbc">>,
     Rbs |-> <<name, "Rbs">>, Zbs |-> <<name, "Zbs">>,
     hasRpol |-> hasRpol, rpol |-> <<3, 2>>, rtor |-> <<5, 2>>,
     Lrad |-> [v \in 1..Mvol |-> 4 + 2 * v],
     Ate |-> [v \in 1..Mvol |-> <<name, "Ate", v>>],
     Ato |-> [v \in 1..Mvol |-> <<name, "Ato", v>>],
     Aze |-> [v \in 1..Mvol |-> <<name, "Aze", v>>],
     Azo |-> [v \in 1..Mvol |-> <<name, "Azo", v>>]]

\* array.T
Transposed(a) == <<a, "T">>

\* fortran_module.specvariables before anything is staged
SpecvariablesUnset ==
    [mvol |-> Unset, ntor |-> Unset, mpol |-> Unset, igeometry |-> Unset,
     mn |-> Unset, notstellsym |-> Unset, nfp |-> Unset, im |-> Unset,
     in1 |-> Unset, irbc |-> Unset, izbc |-> Unset, irbs |-> Unset,
     izbs |-> Unset, rpol |-> Unset, rtor |-> Unset, ivol |-> Unset,
     lrad |-> Unset, ate |-> Unset, ato |-> Unset, aze |-> Unset,
     azo |-> Unset, lcoordinatesingularity |-> Unset]

\* self before __init__ assigns anything but self.fortran_module
SelfUnset ==
    [Mvol |-> Unset, Ntor |-> Unset, Mpol |-> Unset, Igeometry |-> Unset,
     NOTstellsym |-> Unset, Nfp |-> Unset, rpol |-> Unset, rtor |-> Unset,
     ivol |-> Unset, Lrad |-> Unset, Lcoordinatesingularity |-> Unset]

\* lines 24-39: the dataset-wide values staged into the fortran module
StageGlobal(sv, d) ==
    [sv EXCEPT !.mvol = Val(d.Mvol), !.ntor = Val(d.Ntor), !.mpol = Val(d.Mpol),
               !.igeometry = Val(d.Igeometry), !.mn = Val(d.mn),
               !.notstellsym = Val(d.Istellsym = 0), !.nfp = Val(d.Nfp),
               !.im = Val(d.im), !.in1 = Val(d.in1),
               !.irbc = Val(Transposed(d.Rbc)), !.izbc = Val(Transposed(d.Zbc)),
               !.irbs = Val(Transposed(d.Rbs)), !.izbs = Val(Transposed(d.Zbs))]

\* lines 42-55: the same values saved on self, rpol and rtor defaulting to 1.0
SaveSelf(d) ==
    [SelfUnset EXCEPT !.Mvol = Val(d.Mvol), !.Ntor = Val(d.Ntor),
                      !.Mpol = Val(d.Mpol), !.Igeometry = Val(d.Igeometry),
                      !.NOTstellsym = Val(d.Istellsym = 0), !.Nfp = Val(d.Nfp),
                      !.rpol = Val(IF d.hasRpol THEN d.rpol ELSE Num(1)),
                      !.rtor = Val(IF d.hasRpol THEN d.rtor ELSE Num(1))]

\* lines 59-77: the values of sub-volume lvol staged into the fortran module
StageVolume(sv, self, d, lvol) ==
    [sv EXCEPT !.rpol = self.rpol, !.rtor = self.rtor, !.ivol = Val(lvol),
               !.lrad = Val(d.Lrad[lvol]),
               !.ate = Val(Transposed(d.Ate[lvol])),
               !.ato = Val(Transposed(d.Ato[lvol])),
               !.aze = Val(Transposed(d.Aze[lvol])),
               !.azo = Val(Transposed(d.Azo[lvol])),
               !.lcoordinatesingularity = Val(d.Igeometry >= 2 /\ lvol = 1)]

\* lines 80-84
SaveVolume(self, d, lvol) ==
    [self EXCEPT !.ivol = Val(lvol), !.Lrad = Val(d.Lrad[lvol]),
                 !.Lcoordinatesingularity = Val(d.Igeometry >= 2 /\ lvol = 1)]

SPECInit_stage_first(sv, d, lvol) ==
    IF d.version < MinVersion
    THEN [sv |-> StageGlobal(sv, d), self |-> SelfUnset, raised |-> VersionError]
    ELSE IF lvol > 0 /\ lvol <= d.Mvol
    THEN [sv |-> StageVolume(StageGlobal(sv, d), SaveSelf(d), d, lvol),
          self |-> SaveVolume(SaveSelf(d), d, lvol), raised |-> ""]
    ELSE [sv |-> StageGlobal(sv, d), self |-> SaveSelf(d), raised |-> BoundError]

SPECInit_no_raise(sv, d, lvol) ==
    IF d.version < MinVersion
    THEN [sv |-> sv, self |-> SelfUnset, raised |-> VersionError]
    ELSE IF lvol > 0 /\ lvol <= d.Mvol
    THEN [sv |-> StageVolume(StageGlobal(sv, d), SaveSelf(d), d, lvol),
          self |-> SaveVolume(SaveSelf(d), d, lvol), raised |-> ""]
    ELSE [sv |-> StageGlobal(sv, d), self |-> SaveSelf(d), raised |-> ""]

\* SPECProblem.__init__(self, spec_data, lvol): the module-global
\* specvariables after the call, self as far as it was built, and the
\* exception raised ("" when __init__ returns)
SPECInit(sv, d, lvol) ==
    IF d.version < MinVersion
    THEN [sv |-> sv, self |-> SelfUnset, raised |-> VersionError]
    ELSE LET sv1 == StageGlobal(sv, d)
             self1 == SaveSelf(d)
         IN  IF lvol > 0 /\ lvol <= d.Mvol
             THEN [sv |-> StageVolume(sv1, self1, d, lvol),
                   self |-> SaveVolume(self1, d, lvol), raised |-> ""]
             ELSE [sv |-> sv1, self |-> self1, raised |-> BoundError]

----------------------------------------------------------------------------
(* Inputs                                                                  *)

MaxT == 1
MaxQ == 1
MaxR == 2
MaxTime == 4
MaxCoord == 30
MaxArg == 6
MaxLvol == 4

KSet == {Num(0), DefaultK, Num(1)}

TSet == {Num(i) : i \in 0..MaxT}

QSet == {Num(i) : i \in -1..MaxQ}

PSet == {Num(1), <<1, 2>>}

\* tangent matrices, flattened column-major: the identity, and one whose
\* four entries differ
TangentSet == {<<Num(1), Num(0), Num(0), Num(1)>>,
               <<Num(1), Num(3), Num(2), Num(4)>>}

\* the sample angles at which every exact value of f_RZ_tangent fits the
\* 32-bit integers of TLC
PhiSet == {Num(-1), Num(0), Num(1)}

RSet == {Num(i) : i \in 1..MaxR}

ZSet == {Num(0), <<-1, 2>>}

Zero3 == << <<Num(0), Num(0), Num(0)>>, <<Num(0), Num(0), Num(0)>>,
            <<Num(0), Num(0), Num(0)>> >>

Field(hasB, hasdBdX, B0, G) == [hasB |-> hasB, hasdBdX |-> hasdBdX, B0 |-> B0, G |-> G]

\* the base class, two half-implemented models, a uniform field, the field
\* (-y, x, 1) and a linear field whose gradient entries all differ
Fields ==
    {Field(FALSE, FALSE, <<Num(0), Num(0), Num(0)>>, Zero3),
     Field(TRUE, FALSE, <<Num(1), Num(2), Num(1)>>, Zero3),
     Field(FALSE, TRUE, <<Num(0), Num(0), Num(0)>>, Zero3),
     Field(TRUE, TRUE, <<Num(1), Num(2), Num(1)>>, Zero3),
     Field(TRUE, TRUE, <<Num(0), Num(0), Num(1)>>,
           << <<Num(0), Num(-1), Num(0)>>, <<Num(1), Num(0), Num(0)>>,
              <<Num(0), Num(0), Num(0)>> >>),
     Field(TRUE, TRUE, <<Num(1), Num(0), Num(2)>>,
           << <<Num(1), Num(2), Num(3)>>, <<Num(4), Num(5), Num(6)>>,
              <<Num(7), Num(8), Num(9)>> >>)}

\* the base class alone
NoFields == {fld \in Fields : ~fld.hasB /\ ~fld.hasdBdX}

Datasets ==
    {Dataset("A", 22, 2, 3, 1, FALSE), Dataset("B", 30, 3, 1, 0, TRUE),
     Dataset("C", 21, 2, 2, 1, TRUE), Dataset("D", 23, 1, 2, 0, FALSE)}

FloatSet == {v \in -MaxCoord..MaxCoord : IsFloat(v)}

CoordSamples == {-TwoPi - 2, -1, 0, 5, TwoPi, TwoPi + 4}

----------------------------------------------------------------------------
(* State                                                                   *)

Call(op, self, a, x, out, raised) ==
    [op |-> op, self |-> self, a |-> a, x |-> x, out |-> out, raised |-> raised]

NoCall == Call("", <<>>, <<>>, <<>>, <<>>, "")

Configured(op, kv) == [op |-> op, k |-> kv]

Identity == <<Num(1), Num(0), Num(0), Num(1)>>

\* a trajectory at its start: the tangent block is the identity
TrajAt(p0, q0) ==
    [t |-> Num(0), y |-> <<p0, q0>> \o Identity, y0 |-> <<p0, q0>>, free |-> TRUE]

Idle ==
    /\ k = DefaultK
    /\ kArg = Configured("__init__", DefaultK)
    /\ traj = TrajAt(Num(1), Num(0))
    /\ field = Field(FALSE, FALSE, <<Num(0), Num(0), Num(0)>>, Zero3)
    /\ specvariables = SpecvariablesUnset
    /\ instances = {}
    /\ call = NoCall

----------------------------------------------------------------------------
(* Evaluating the right-hand sides of a PerturbedSlab and a CartesianBfield *)

\* ps = PerturbedSlab(k)
SlabConstruct(kv) ==
    /\ k' = SlabInit(kv)
    /\ kArg' = Configured("__init__", kv)
    /\ call' = Call("__init__", <<>>, kv, <<>>, <<>>, "")
    /\ UNCHANGED <<traj, field, specvariables, instances>>

\* ps.set_k(k)
SetK(kv) ==
    /\ k' = set_k(k, kv)
    /\ kArg' = Configured("set_k", kv)
    /\ call' = Call("set_k", k, kv, <<>>, <<>>, "")
    /\ UNCHANGED <<traj, field, specvariables, instances>>

\* ps.f(t, qp)
EvalF(t, qp) ==
    /\ call' = Call("f", k, t, qp, f(k, t, qp), "")
    /\ UNCHANGED <<k, kArg, traj, field, specvariables, instances>>

\* ps.f_tangent(t, qp)
EvalFTangent(t, qp) ==
    /\ call' = Call("f_tangent", k, t, qp, f_tangent(k, t, qp), "")
    /\ UNCHANGED <<k, kArg, traj, field, specvariables, instances>>

Outcome(op, a, x, r) == Call(op, field, a, x, r.out, r.raised)

\* bf.B(xyz)
CallB(R, phi, Z) ==
    /\ call' = Outcome("B", <<>>, ToXYZ(R, phi, Z), B(field, ToXYZ(R, phi, Z)))
    /\ UNCHANGED <<k, kArg, traj, field, specvariables, instances>>

\* bf.dBdX(xyz)
CalldBdX(R, phi, Z) ==
    /\ call' = Outcome("dBdX", <<>>, ToXYZ(R, phi, Z), dBdX(field, ToXYZ(R, phi, Z)))
    /\ UNCHANGED <<k, kArg, traj, field, specvariables, instances>>

\* bf.f_RZ(phi, RZ)
EvalFRZ(phi, RZ) ==
    /\ call' = Outcome("f_RZ", phi, RZ, f_RZ(field, phi, RZ))
    /\ UNCHANGED <<k, kArg, traj, field, specvariables, instances>>

\* bf.f_RZ_tangent(phi, RZ)
EvalFRZTangent(phi, RZ) ==
    /\ call' = Outcome("f_RZ_tangent", phi, RZ, f_RZ_tangent(field, phi, RZ))
    /\ UNCHANGED <<k, kArg, traj, field, specvariables, instances>>

\* a PerturbedSlab and a CartesianBfield, each handed to a consumer that
\* evaluates its right-hand sides
Init ==
    /\ \/ \E kv \in KSet : k = SlabInit(kv) /\ kArg = Configured("__init__", kv) /\ field \in NoFields
       \/ k = SlabInit(DefaultK) /\ kArg = Configured("__init__", DefaultK) /\ field \in Fields
    /\ traj = TrajAt(Num(1), Num(0))
    /\ specvariables = SpecvariablesUnset
    /\ instances = {}
    /\ call = NoCall

Next ==
    \/ \E t \in TSet, p \in PSet, q \in QSet : EvalF(t, <<p, q>>)
    \/ \E t \in TSet, p \in PSet, q \in QSet, M \in TangentSet :
          EvalFTangent(t, <<p, q>> \o M)
    \/ \E R \in RSet, phi \in PhiSet, Z \in ZSet : EvalFRZ(phi, <<R, Z>>)
    \/ \E R \in RSet, phi \in PhiSet, Z \in ZSet, M \in TangentSet :
          EvalFRZTangent(phi, <<R, Z>> \o M)

Spec == Init /\ [][Next]_vars

\* one PerturbedSlab, reconfigured and evaluated
InitSlab ==
    /\ \E kv \in KSet : k = SlabInit(kv) /\ kArg = Configured("__init__", kv)
    /\ traj = TrajAt(Num(1), Num(0))
    /\ field = Field(FALSE, FALSE, <<Num(0), Num(0), Num(0)>>, Zero3)
    /\ specvariables = SpecvariablesUnset
    /\ instances = {}
    /\ call = NoCall

NextSlab ==
    \/ \E kv \in KSet : SlabConstruct(kv)
    \/ \E kv \in KSet : SetK(kv)
    \/ \E t \in TSet, p \in PSet, q \in QSet : EvalF(t, <<p, q>>)
    \/ \E t \in TSet, p \in PSet, q \in QSet, M \in TangentSet :
          EvalFTangent(t, <<p, q>> \o M)

SpecSlab == InitSlab /\ [][NextSlab]_vars

\* one CartesianBfield: the base class or a concrete model
InitCart ==
    /\ k = DefaultK
    /\ kArg = Configured("__init__", DefaultK)
    /\ traj = TrajAt(Num(1), Num(0))
    /\ field \in Fields
    /\ specvariables = SpecvariablesUnset
    /\ instances = {}
    /\ call = NoCall

NextCart ==
    \/ \E R \in RSet, phi \in PhiSet, Z \in ZSet : CallB(R, phi, Z)
    \/ \E R \in RSet, phi \in PhiSet, Z \in ZSet : CalldBdX(R, phi, Z)
    \/ \E R \in RSet, phi \in PhiSet, Z \in ZSet : EvalFRZ(phi, <<R, Z>>)
    \/ \E R \in RSet, phi \in PhiSet, Z \in ZSet, M \in TangentSet :
          EvalFRZTangent(phi, <<R, Z>> \o M)

SpecCart == InitCart /\ [][NextCart]_vars

----------------------------------------------------------------------------
(* A consumer stepping the slab's extended state (explicit Euler steps)    *)

Scale(h, v) == [i \in 1..Len(v) |-> RMul(h, v[i])]

VecAdd(u, v) == [i \in 1..Len(u) |-> RAdd(u[i], v[i])]

\* the sample angles: those where 2q - t and 3q - 2t are within MaxArg steps
OnGrid(t, q) ==
    /\ IsAngle(t) /\ IsAngle(q)
    /\ Abs(2 * q[1] - t[1]) <= MaxArg
    /\ Abs(3 * q[1] - 2 * t[1]) <= MaxArg

\* a new trajectory from (p0, q0), tangent matrix the identity
TrajStart(p0, q0) ==
    /\ traj' = TrajAt(p0, q0)
    /\ call' = NoCall
    /\ UNCHANGED <<k, kArg, field, specvariables, instances>>

\* one step of size h: y' = y + h * f_tangent(t, y); q stays on the angle grid
TrajStep(h) ==
    LET dy == f_tangent(k, traj.t, traj.y)
        y1 == VecAdd(traj.y, Scale(h, dy))
        t1 == RAdd(traj.t, h)
    IN  /\ t1[1] <= MaxTime
        /\ OnGrid(traj.t, traj.y[2])
        /\ IsAngle(y1[2])
        /\ traj' = [traj EXCEPT !.t = t1, !.y = y1, !.free = traj.free /\ k = Num(0)]
        /\ call' = Call("f_tangent", k, traj.t, traj.y, dy, "")
        /\ UNCHANGED <<k, kArg, field, specvariables, instances>>

\* the plain right-hand side at the trajectory's point
TrajEvalF ==
    /\ OnGrid(traj.t, traj.y[2])
    /\ call' = Call("f", k, traj.t, <<traj.y[1], traj.y[2]>>,
                    f(k, traj.t, <<traj.y[1], traj.y[2]>>), "")
    /\ UNCHANGED <<k, kArg, traj, field, specvariables, instances>>

InitTraj ==
    /\ \E kv \in KSet : k = SlabInit(kv) /\ kArg = Configured("__init__", kv)
    /\ \E p0 \in {Num(1), Num(2)}, q0 \in QSet : traj = TrajAt(p0, q0)
    /\ field = Field(FALSE, FALSE, <<Num(0), Num(0), Num(0)>>, Zero3)
    /\ specvariables = SpecvariablesUnset
    /\ instances = {}
    /\ call = NoCall

NextTraj ==
    \/ \E kv \in KSet : SetK(kv)
    \/ \E p0 \in {Num(1), Num(2)}, q0 \in QSet : TrajStart(p0, q0)
    \/ \E h \in {Num(1), Num(2)} : TrajStep(h)
    \/ TrajEvalF

SpecTraj == InitTraj /\ [][NextTraj]_vars

----------------------------------------------------------------------------
(* Normalizing coordinates                                                 *)

\* ps.convert_coords(incoords)
ConvertCoords(incoords) ==
    /\ call' = Call("convert_coords", <<>>, <<>>, incoords, convert_coords(incoords), "")
    /\ UNCHANGED <<k, kArg, traj, field, specvariables, instances>>

NextCoords ==
    \E p \in {-5, 3} :
        \/ \E q \in FloatSet, t \in CoordSamples : ConvertCoords(<<p, q, t>>)
        \/ \E q \in CoordSamples, t \in FloatSet : ConvertCoords(<<p, q, t>>)

SpecCoords == Idle /\ [][NextCoords]_vars

----------------------------------------------------------------------------
(* Constructing SPECProblem instances over the shared fortran module       *)

\* SPECProblem(spec_data, lvol)
SPECConstruct(d, lvol) ==
    LET r == SPECInit(specvariables, d, lvol)
    IN  /\ specvariables' = r.sv
        /\ instances' = IF r.raised = "" THEN instances \cup {r.self} ELSE instances
        /\ call' = Call("SPECProblem", <<>>, d, lvol, r.self, r.raised)
        /\ UNCHANGED <<k, kArg, traj, field>>

NextSPEC == \E d \in Datasets, lvol \in -1..MaxLvol : SPECConstruct(d, lvol)

SpecSPEC == Idle /\ [][NextSPEC]_vars

----------------------------------------------------------------------------
(* Properties                                                              *)

TangentReturned == call.op = "f_RZ_tangent" /\ call.raised = ""

\* the field value that the latest f_RZ_tangent call read at its point
CallBxy == B(call.self, ToXYZ(call.x[1], call.a, call.x[2])).out

\* C1, as the specification words it (rows counted from 0): row 1 of the
\* correction term is zero and row 2 is
\* (-Bx sin/R^2 + By cos/R^2, -Bx cos/R - By sin/R, 0).
C1_TermAsSpecified ==
    TangentReturned =>
        LET Bx == CallBxy[1]
            By == CallBxy[2]
            s == Sin(call.a)
            c == Cos(call.a)
            R == call.x[1]
            T == dinvJ(Bx, By, call.a, R)
        IN  /\ T[1] = <<Num(0), RAdd(RNeg(RMul(Bx, s)), RMul(By, c)), Num(0)>>
            /\ T[2] = <<Num(0), Num(0), Num(0)>>
            /\ T[3] = <<RAdd(RDiv(RNeg(RMul(Bx, s)), RMul(R, R)),
                             RDiv(RMul(By, c), RMul(R, R))),
                        RSub(RDiv(RNeg(RMul(Bx, c)), R), RDiv(RMul(By, s), R)),
                        Num(0)>>

\* C1, amended: for R # 0 the correction term added to J^-1 dBdX J has row 0
\* = (0, -Bx sin + By cos, 0), row 1 (the phi row) =
\* ((Bx sin - By cos)/R^2, -(Bx cos + By sin)/R, 0) and row 2 zero.
C1_TermOfCode ==
    TangentReturned =>
        LET Bx == CallBxy[1]
            By == CallBxy[2]
            s == Sin(call.a)
            c == Cos(call.a)
            R == call.x[1]
            T == dinvJ(Bx, By, call.a, R)
        IN  /\ T[1] = <<Num(0), RSub(RMul(By, c), RMul(Bx, s)), Num(0)>>
            /\ T[2] = <<RDiv(RSub(RMul(Bx, s), RMul(By, c)), RMul(R, R)),
                        RNeg(RDiv(RAdd(RMul(Bx, c), RMul(By, s)), R)),
                        Num(0)>>
            /\ T[3] = <<Num(0), Num(0), Num(0)>>

C1_Witness ==
    /\ TangentReturned
    /\ CallBxy[1][1] # 0 /\ CallBxy[2][1] # 0
    /\ Sin(call.a)[1] # 0
    /\ call.x[1] = Num(2)
    /\ dinvJ(CallBxy[1], CallBxy[2], call.a, call.x[1])[2][1][1] # 0

\* C2: with k = 0, stepping from (p, q) = (1, 0) and the identity keeps
\* p = 1, q = t and the tangent matrix [[1, 0], [t, 1]]; and for k = 0 f
\* returns (0, p) and f_tangent returns (0, p) with [[0, 0], [1, 0]] * M.
C2_FreeParticle ==
    /\ (traj.free /\ traj.y0 = <<Num(1), Num(0)>>) =>
           traj.y = <<Num(1), traj.t, Num(1), traj.t, Num(0), Num(1)>>
    /\ (call.op = "f" /\ call.self = Num(0)) => call.out = <<Num(0), call.x[1]>>
    /\ (call.op = "f_tangent" /\ call.self = Num(0)) =>
           call.out = <<Num(0), call.x[1], Num(0), call.x[3], Num(0), call.x[5]>>

C2_Witness ==
    /\ traj.free /\ traj.y0 = <<Num(1), Num(0)>>
    /\ traj.t = Num(3) /\ traj.y[2] = Num(3) /\ traj.y[4] = Num(3)
    /\ call.op = "f_tangent" /\ call.self = Num(0)

\* C3: SPECProblem(spec_data, lvol) with lvol <= 0 or lvol > Mvol raises and
\* leaves ivol, Lrad and Lcoordinatesingularity unset, so no instance has
\* them out of range; with 1 <= lvol <= Mvol and a supported version it
\* returns, with ivol = lvol.
C3_VolumeChecked ==
    /\ call.op = "SPECProblem" =>
           LET d == call.a
               lvol == call.x
           IN  /\ (lvol <= 0 \/ lvol > d.Mvol) =>
                      /\ call.raised # ""
                      /\ call.out.ivol = Unset
                      /\ call.out.Lrad = Unset
                      /\ call.out.Lcoordinatesingularity = Unset
                      /\ d.version >= MinVersion => call.raised = BoundError
               /\ (lvol >= 1 /\ lvol <= d.Mvol /\ d.version >= MinVersion) =>
                      /\ call.raised = ""
                      /\ call.out.ivol = Val(lvol)
                      /\ call.out \in instances
    /\ \A i \in instances :
           /\ i.ivol # Unset /\ i.Lrad # Unset /\ i.Lcoordinatesingularity # Unset
           /\ i.ivol[1] >= 1 /\ i.ivol[1] <= i.Mvol[1]

C3_Witness ==
    /\ call.op = "SPECProblem"
    /\ call.x > call.a.Mvol
    /\ call.a.version >= MinVersion
    /\ call.raised = BoundError
    /\ instances # {}

\* C4: SPECProblem on a dataset of version < 2.2 raises for every lvol and
\* leaves specvariables exactly as it was, and yields no instance.
C4_VersionFirst ==
    [][(call'.op = "SPECProblem" /\ call'.a.version < MinVersion) =>
           /\ call'.raised = VersionError
           /\ specvariables' = specvariables
           /\ instances' = instances]_vars

C4_Witness ==
    /\ call.op = "SPECProblem"
    /\ call.a.version < MinVersion
    /\ call.raised = VersionError
    /\ specvariables.mvol # Unset
    /\ specvariables.ivol # Unset

\* C5: every f and f_tangent evaluation uses the k of the latest
\* __init__/set_k call, and nothing but those two calls changes self.k.
C5_LatestK ==
    /\ k = kArg.k
    /\ call.op \in {"f", "f_tangent"} =>
           LET t == call.a
               p == call.x[1]
               q == call.x[2]
               force == RAdd(Sin(RSub(RAdd(q, q), t)),
                             Sin(RSub(RAdd(RAdd(q, q), q), RAdd(t, t))))
           IN  /\ call.out[1] = RNeg(RMul(kArg.k, force))
               /\ call.out[2] = p
    /\ call.op = "f_tangent" =>
           LET t == call.a
               q == call.x[2]
               L01 == RNeg(RMul(kArg.k,
                         RAdd(RMul(Num(2), Cos(RSub(RAdd(q, q), t))),
                              RMul(Num(3), Cos(RSub(RAdd(RAdd(q, q), q), RAdd(t, t)))))))
           IN  /\ call.out[3] = RMul(L01, call.x[4])
               /\ call.out[5] = RMul(L01, call.x[6])

C5_Witness ==
    /\ call.op = "f_tangent"
    /\ kArg = Configured("set_k", Num(1))
    /\ call.out[1][1] # 0
    /\ call.out[5][1] # 0

Canonical(v) == v >= 0 /\ v < TwoPi

\* C6, as the specification words it: convert_coords returns index 0 (p) and
\* index 2 (t) unaltered for every input.
C6_OnlyQWrapped ==
    call.op = "convert_coords" =>
        /\ call.out[1] = call.x[1]
        /\ call.out[3] = call.x[3]

\* C6, amended: convert_coords returns index 0 (p) unaltered and wraps both
\* index 1 (q) and index 2 (t) by np.mod(., 2 pi): each is returned
\* unaltered exactly when it already lies in [0, 2 pi), and otherwise is
\* moved into [0, 2 pi].
C6_QAndTWrapped ==
    call.op = "convert_coords" =>
        /\ call.out[1] = call.x[1]
        /\ \A i \in {2, 3} :
               /\ call.out[i] >= 0 /\ call.out[i] <= TwoPi
               /\ call.out[i] = call.x[i] <=> Canonical(call.x[i])

C6_Witness ==
    /\ call.op = "convert_coords"
    /\ call.x[1] # 0
    /\ Canonical(call.x[2])
    /\ call.x[3] > TwoPi
    /\ call.out[3] # call.x[3]
    /\ Canonical(call.out[3])

\* C7: convert_coords is idempotent, and a point whose wrapped components
\* lie in [0, 2 pi) is returned unchanged.
C7_Idempotent ==
    call.op = "convert_coords" =>
        /\ convert_coords(call.out) = call.out
        /\ (Canonical(call.x[2]) /\ Canonical(call.x[3])) => call.out = call.x

Failed == call.raised = NotImplemented /\ call.out = <<>>

\* C8: on a model that has not supplied B, the calls B, f_RZ and
\* f_RZ_tangent fail with NotImplementedError; on one that has not supplied
\* dBdX, the calls dBdX and f_RZ_tangent do; so on the base class all four
\* fail, for every input, and return nothing.
C8_NotImplemented ==
    /\ (call.op \in {"B", "f_RZ", "f_RZ_tangent"} /\ ~call.self.hasB) => Failed
    /\ (call.op \in {"dBdX", "f_RZ_tangent"} /\ ~call.self.hasdBdX) => Failed
    /\ (call.op \in {"B", "dBdX", "f_RZ", "f_RZ_tangent"}
           /\ ~call.self.hasB /\ ~call.self.hasdBdX) => Failed

C8_Witness ==
    /\ call.op = "f_RZ"
    /\ ~call.self.hasB /\ ~call.self.hasdBdX
    /\ Failed

\* the tangent right-hand side of the latest call's problem, at the call's
\* point, for the tangent block m (column-major)
TangentAt(m) ==
    IF call.op = "f_tangent"
    THEN f_tangent(call.self, call.a, <<call.x[1], call.x[2]>> \o m)
    ELSE f_RZ_tangent(call.self, call.a, <<call.x[1], call.x[2]>> \o m).out

\* the plain right-hand side of the latest call's problem, at the call's point
PlainAt ==
    IF call.op = "f_tangent"
    THEN f(call.self, call.a, <<call.x[1], call.x[2]>>)
    ELSE f_RZ(call.self, call.a, <<call.x[1], call.x[2]>>).out

\* C9: f_tangent and f_RZ_tangent return problem_size + problem_size^2 = 6
\* entries; the first 2 are the plain right-hand side at the same point,
\* whatever the tangent entries; the last 4 are L*M column-major, M being
\* input entries 2..5 column-major and L (the response to the identity)
\* depending on the point alone.
C9_ExtendedLayout ==
    (call.op \in {"f_tangent", "f_RZ_tangent"} /\ call.raised = "") =>
        LET E == TangentAt(Identity)
            x == call.x
            y == call.out
            Dot(a, b, u, v) == RAdd(RMul(a, u), RMul(b, v))
        IN  /\ Len(x) = problem_size + problem_size * problem_size
            /\ Len(y) = problem_size + problem_size * problem_size
            /\ <<y[1], y[2]>> = PlainAt
            /\ \A m \in TangentSet : <<TangentAt(m)[1], TangentAt(m)[2]>> = <<y[1], y[2]>>
            /\ y[3] = Dot(E[3], E[5], x[3], x[4])
            /\ y[4] = Dot(E[4], E[6], x[3], x[4])
            /\ y[5] = Dot(E[3], E[5], x[5], x[6])
            /\ y[6] = Dot(E[4], E[6], x[5], x[6])

C9_Witness ==
    /\ call.op = "f_RZ_tangent" /\ call.raised = ""
    /\ <<call.x[3], call.x[4], call.x[5], call.x[6]>> # Identity
    /\ \A i \in 1..6 : IsFinite(call.out[i]) /\ call.out[i][1] # 0
    /\ call.out[4] # call.out[5]

\* C10: once an instance exists the staged values are not changed, so the
\* staged ivol (and mvol) equal those of every existing instance.
C10_StagedReadOnly ==
    \A i \in instances :
        /\ specvariables.ivol = i.ivol
        /\ specvariables.mvol = i.Mvol

====
